---- MODULE Spec2Model ----
(***************************************************************************)
(* Verification model of src/ai.py (zumeno/learn-ai).                      *)
(*                                                                         *)
(* Python strings are modelled as sequences of one-character strings, so   *)
(* that len, +, strip, split, rsplit and `in` are computed character by    *)
(* character as CPython computes them.  The language model behind          *)
(* ai_generate and the nltk sentence tokenizer are external: the text a    *)
(* generation call returns and the sentence list a document tokenizes to   *)
(* are inputs drawn from bounded sets.                                     *)
(***************************************************************************)
EXTENDS Integers, Sequences, FiniteSets, TLC

VARIABLES
    pc,                \* position of the running call
    error,             \* exception that ended the call, "none" otherwise
    \* split_into_chunks (ai.py 148-163)
    sentences,         \* sent_tokenize(text)
    chunk_size,
    idx,               \* number of sentences the for loop has consumed
    current_chunk,
    chunks,
    \* ai_response and its four callers (ai.py 98-146)
    fn,                \* the function called
    generated,         \* what ai_generate returned
    result,            \* what the call returned
    \* generate_questions_and_answers (ai.py 165-208)
    batch_size,
    qa_i,              \* loop variable i of line 169
    batch_responses,
    qa_pairs,
    genLog,            \* the ai_generate calls made: chunk number, text returned
    releases,          \* number of torch.cuda.empty_cache() calls of line 205
    \* apply_pruning_efficiently (ai.py 20-49), module start-up (210-212)
    model,             \* the modules of the model handle, in named_modules order
    model0,            \* the model as it was passed in
    amount,            \* pruning fraction num/den
    parameters_to_prune,
    prune_i            \* loop variable i of line 28

chunkVars == <<sentences, chunk_size, idx, current_chunk, chunks>>
respVars == <<fn, generated, result>>
qaVars == <<batch_size, qa_i, batch_responses, qa_pairs, genLog, releases>>

pruneVars == <<model, model0, amount, parameters_to_prune, prune_i>>

vars == <<pc, error, chunkVars, respVars, qaVars, pruneVars>>

----------------------------------------------------------------------------
(* Bounds of the explored inputs.                                          *)

MaxSentences == 4
MaxSentLen == 4
MaxChunkSize == 6
MaxTextPieces == 4
MaxRawPieces == 5
MaxDocSentences == 3
MaxBatchSize == 3
MaxModules == 2
MaxLayerLen == 2

----------------------------------------------------------------------------
(* Python str primitives.                                                  *)

\* characters str.strip() removes (those the model's alphabets can hold)
Whitespace == {" ", "\n", "\t", "\r", "\f"}

\* s[i:] for 0-based i
DropFirst(s, n) == SubSeq(s, n + 1, Len(s))

\* s[:n]
TakeFirst(s, n) == SubSeq(s, 1, n)

RECURSIVE LStrip(_)
LStrip(s) ==
    IF s # <<>> /\ Head(s) \in Whitespace THEN LStrip(Tail(s)) ELSE s

RECURSIVE RStrip(_)
RStrip(s) ==
    IF s # <<>> /\ s[Len(s)] \in Whitespace
    THEN RStrip(SubSeq(s, 1, Len(s) - 1))
    ELSE s

\* str.strip()
Strip(s) == RStrip(LStrip(s))

\* s.startswith(sep, i) for 0-based i
MatchAt(s, sep, i) ==
    /\ i + Len(sep) <= Len(s)
    /\ \A k \in 1..Len(sep) : s[i + k] = sep[k]

\* s.find(sep, i): lowest 0-based index >= i where sep occurs, -1 if none
RECURSIVE Find(_, _, _)
Find(s, sep, i) ==
    IF i + Len(sep) > Len(s) THEN -1
    ELSE IF MatchAt(s, sep, i) THEN i
    ELSE Find(s, sep, i + 1)

\* s.rfind(sep, 0, i + len(sep)): highest 0-based index <= i, -1 if none
RECURSIVE RFind(_, _, _)
RFind(s, sep, i) ==
    IF i < 0 THEN -1
    ELSE IF MatchAt(s, sep, i) THEN i
    ELSE RFind(s, sep, i - 1)

\* sep in s
Contains(s, sep) == Find(s, sep, 0) # -1

\* s.split(sep): cut at the leftmost occurrences, left to right
RECURSIVE Split(_, _)
Split(s, sep) ==
    LET p == Find(s, sep, 0) IN
    IF p = -1 THEN <<s>>
    ELSE <<TakeFirst(s, p)>> \o Split(DropFirst(s, p + Len(sep)), sep)

\* s.split(sep, 1)
Split1(s, sep) ==
    LET p == Find(s, sep, 0) IN
    IF p = -1 THEN <<s>>
    ELSE <<TakeFirst(s, p), DropFirst(s, p + Len(sep))>>

\* s.rsplit(sep, 1)
RSplit1(s, sep) ==
    LET p == RFind(s, sep, Len(s) - Len(sep)) IN
    IF p = -1 THEN <<s>>
    ELSE <<TakeFirst(s, p), DropFirst(s, p + Len(sep))>>

\* seq[-1]
Last(seq) == seq[Len(seq)]

\* {}
EmptyMap == [q \in {} |-> <<>>]

\* all sequences over S of length lo..hi
SeqsBetween(S, lo, hi) == UNION {[1..n -> S] : n \in lo..hi}

----------------------------------------------------------------------------
(* split_into_chunks (ai.py 148-163).                                      *)

\* sentences of each length, with and without inner spaces
SentencePool ==
    {<<"a">>, <<"b">>, <<"a", "b">>, <<"a", " ", "b">>, <<"b", "a", "b">>,
     <<"a", "b", " ", "a">>, <<"b", " ", "a", " ", "b">>,
     <<"a", "b", "a", "b", "a", "b">>}

\* what sent_tokenize yields: non-empty sentences without outer whitespace
SentenceSet == {s \in SentencePool : Len(s) <= MaxSentLen}

\* mutation: the size test of line 154 lets one character too many through
ChunkLoopBody_LooseBound(cur, chs, sentence, size) ==
    IF Len(cur) + Len(sentence) <= size + 1
    THEN [current_chunk |-> cur \o sentence \o <<" ">>, chunks |-> chs]
    ELSE [current_chunk |-> sentence \o <<" ">>,
          chunks |-> Append(chs, Strip(cur))]

\* one iteration of the for loop, lines 153-158
ChunkLoopBody(cur, chs, sentence, size) ==
    IF Len(cur) + Len(sentence) <= size
    THEN [current_chunk |-> cur \o sentence \o <<" ">>, chunks |-> chs]
    ELSE [current_chunk |-> sentence \o <<" ">>,
          chunks |-> Append(chs, Strip(cur))]

\* mutation: the final chunk is never appended
ChunkEpilogue_DropLast(cur, chs) == chs

\* lines 160-163
ChunkEpilogue(cur, chs) ==
    IF cur # <<>> THEN Append(chs, Strip(cur)) ELSE chs

RECURSIVE ChunkLoop(_, _, _, _)
ChunkLoop(cur, chs, sents, size) ==
    IF sents = <<>> THEN ChunkEpilogue(cur, chs)
    ELSE LET st == ChunkLoopBody(cur, chs, Head(sents), size) IN
         ChunkLoop(st.current_chunk, st.chunks, Tail(sents), size)

\* the whole function, given the tokenizer's sentence list
split_into_chunks(sents, size) == ChunkLoop(<<>>, <<>>, sents, size)

InitChunk ==
    /\ pc = "chunk_loop"
    /\ error = "none"
    /\ sentences \in SeqsBetween(SentenceSet, 0, MaxSentences)
    /\ chunk_size \in 1..MaxChunkSize
    /\ idx = 0
    /\ current_chunk = <<>>
    /\ chunks = <<>>
    /\ fn = "none" /\ generated = <<>> /\ result = <<>>
    /\ batch_size = 1 /\ qa_i = 0 /\ batch_responses = <<>>
    /\ qa_pairs = EmptyMap /\ genLog = <<>> /\ releases = 0
    /\ model = <<>> /\ model0 = <<>> /\ amount = [num |-> 1, den |-> 5]
    /\ parameters_to_prune = <<>> /\ prune_i = 0

\* line 154 true: the sentence joins the current chunk
ChunkAppend ==
    /\ pc = "chunk_loop"
    /\ idx < Len(sentences)
    /\ Len(current_chunk) + Len(sentences[idx + 1]) <= chunk_size
    /\ LET st == ChunkLoopBody(current_chunk, chunks,
                               sentences[idx + 1], chunk_size) IN
        /\ current_chunk' = st.current_chunk
        /\ chunks' = st.chunks
    /\ idx' = idx + 1
    /\ UNCHANGED <<pc, error, sentences, chunk_size, respVars, qaVars, pruneVars>>

\* line 154 false: the current chunk is closed, the sentence starts a new one
ChunkClose ==
    /\ pc = "chunk_loop"
    /\ idx < Len(sentences)
    /\ ~(Len(current_chunk) + Len(sentences[idx + 1]) <= chunk_size)
    /\ LET st == ChunkLoopBody(current_chunk, chunks,
                               sentences[idx + 1], chunk_size) IN
        /\ current_chunk' = st.current_chunk
        /\ chunks' = st.chunks
    /\ idx' = idx + 1
    /\ UNCHANGED <<pc, error, sentences, chunk_size, respVars, qaVars, pruneVars>>

\* lines 160-163: loop exhausted, final chunk, return
ChunkReturn ==
    /\ pc = "chunk_loop"
    /\ idx = Len(sentences)
    /\ chunks' = ChunkEpilogue(current_chunk, chunks)
    /\ pc' = "chunk_done"
    /\ UNCHANGED <<error, sentences, chunk_size, idx, current_chunk, respVars, qaVars,
                   pruneVars>>

NextChunk == ChunkAppend \/ ChunkClose \/ ChunkReturn

SpecChunk == InitChunk /\ [][NextChunk]_vars

(* Properties of split_into_chunks.                                        *)

\* " ".join(sents)
RECURSIVE Join(_)
Join(sents) ==
    IF sents = <<>> THEN <<>>
    ELSE IF Len(sents) = 1 THEN sents[1]
    ELSE sents[1] \o <<" ">> \o Join(Tail(sents))

\* Reads the chunks chs as consecutive groups of the sentence list, the
\* first group starting at sentence `start`; the number of sentences read
\* when every chunk is the single-space join of its group, -1 otherwise.
RECURSIVE SentencesRead(_, _)
SentencesRead(chs, start) ==
    IF chs = <<>> THEN start - 1
    ELSE LET ends == {j \in (start - 1)..Len(sentences) :
                         Join(SubSeq(sentences, start, j)) = Head(chs)} IN
         IF ends = {} THEN -1
         ELSE SentencesRead(Tail(chs), (CHOOSE j \in ends : TRUE) + 1)

\* C1: every chunk emitted has length <= chunk_size, or is exactly one
\* sentence and that sentence alone is longer than chunk_size.
C1_ChunkWithinBound ==
    \A c \in 1..Len(chunks) :
        \/ Len(chunks[c]) <= chunk_size
        \/ \E i \in 1..Len(sentences) :
              /\ chunks[c] = sentences[i]
              /\ Len(sentences[i]) > chunk_size

C1_Witness ==
    /\ pc = "chunk_done"
    /\ \E c \in 1..Len(chunks) : Len(chunks[c]) > chunk_size
    /\ \E c \in 1..Len(chunks) :
          /\ chunks[c] \notin SentenceSet
          /\ Len(chunks[c]) = chunk_size
    /\ Len(sentences) > Len(chunks)

\* C2: the chunks returned, read in order, are the single-space joins of
\* consecutive groups of the sentence list that together cover every
\* sentence once, in order; while the loop runs the same holds of the
\* chunks emitted so far plus the open chunk and the sentences consumed.
C2_SentencesPreserved ==
    /\ pc = "chunk_done" => SentencesRead(chunks, 1) = Len(sentences)
    /\ pc = "chunk_loop" =>
          SentencesRead(Append(chunks, Strip(current_chunk)), 1) = idx

C2_Witness ==
    /\ pc = "chunk_done"
    /\ Len(sentences) = 3
    /\ Len(chunks) = 2
    /\ \E c \in 1..2 : Len(chunks[c]) > Len(sentences[1]) + Len(sentences[3])

\* C10 as stated: no chunk emitted is empty.
C10_NoEmptyChunk ==
    \A c \in 1..Len(chunks) : chunks[c] # <<>>

----------------------------------------------------------------------------
(* ai_response, ai_answer, ai_hint, ai_feedback, ai_verdict                *)
(* (ai.py 98-146).  The prompt template each of them builds only feeds     *)
(* ai_generate; the text ai_generate returns is drawn from GeneratedTexts. *)

KeyAnswer ==
    <<"#", "#", "#", "a", "n", "s", "w", "e", "r">>

KeyHint ==
    <<"#", "#", "#", "h", "i", "n", "t">>

KeyFeedback ==
    <<"#", "#", "#", "f", "e", "e", "d", "b", "a", "c", "k">>

KeyVerdict ==
    <<"#", "#", "#", "v", "e", "r", "d", "i", "c", "t">>

\* the response_key each caller passes (lines 118, 127, 137, 146)
ResponseKey ==
    [ai_answer |-> KeyAnswer, ai_hint |-> KeyHint,
     ai_feedback |-> KeyFeedback, ai_verdict |-> KeyVerdict]

RECURSIVE Concat(_)
Concat(pieces) ==
    IF pieces = <<>> THEN <<>> ELSE Head(pieces) \o Concat(Tail(pieces))

\* building blocks of the generated texts explored
TextPieces ==
    {ResponseKey[f] \o <<":">> : f \in DOMAIN ResponseKey}
        \cup {<<" ">>, <<"\n">>, <<"4", "2">>, <<"#">>}

GeneratedTexts ==
    {Concat(ps) : ps \in SeqsBetween(TextPieces, 0, MaxTextPieces)}

\* mutation: split at the first occurrence of the marker instead of the last
ExtractResponse_FirstMarker(response, response_key) ==
    Strip(Last(Split1(response, response_key \o <<":">>)))

\* line 109: response.rsplit(response_key + ":", 1)[-1].strip()
ExtractResponse(response, response_key) ==
    Strip(Last(RSplit1(response, response_key \o <<":">>)))

InitResp ==
    /\ pc = "idle"
    /\ error = "none"
    /\ sentences = <<>> /\ chunk_size = 1 /\ idx = 0
    /\ current_chunk = <<>> /\ chunks = <<>>
    /\ fn = "none" /\ generated = <<>> /\ result = <<>>
    /\ batch_size = 1 /\ qa_i = 0 /\ batch_responses = <<>>
    /\ qa_pairs = EmptyMap /\ genLog = <<>> /\ releases = 0
    /\ model = <<>> /\ model0 = <<>> /\ amount = [num |-> 1, den |-> 5]
    /\ parameters_to_prune = <<>> /\ prune_i = 0

\* lines 98-109, reached through the caller f
ai_response(f, response_key) ==
    /\ pc = "idle"
    /\ \E g \in GeneratedTexts :
          /\ generated' = g
          /\ result' = ExtractResponse(g, response_key)
    /\ fn' = f
    /\ pc' = "returned"
    /\ UNCHANGED <<error, chunkVars, qaVars, pruneVars>>

\* lines 111-118
ai_answer == ai_response("ai_answer", KeyAnswer)

\* lines 120-127
ai_hint == ai_response("ai_hint", KeyHint)

\* lines 129-137
ai_feedback == ai_response("ai_feedback", KeyFeedback)

\* lines 139-146
ai_verdict == ai_response("ai_verdict", KeyVerdict)

NextResp == ai_answer \/ ai_hint \/ ai_feedback \/ ai_verdict

SpecResp == InitResp /\ [][NextResp]_vars

(* Properties of the response extraction.                                  *)

Max(S) == CHOOSE x \in S : \A y \in S : y <= x
Min(S) == CHOOSE x \in S : \A y \in S : x <= y

\* s without the whitespace before its first and after its last
\* non-whitespace character
Trimmed(s) ==
    LET solid == {i \in 1..Len(s) : s[i] \notin Whitespace} IN
    IF solid = {} THEN <<>> ELSE SubSeq(s, Min(solid), Max(solid))

\* 0-based positions at which sep occurs in s
Occurrences(s, sep) == {i \in 0..(Len(s) - Len(sep)) : MatchAt(s, sep, i)}

\* the part of s after the last occurrence of sep, all of s if there is none
AfterLast(s, sep) ==
    IF Occurrences(s, sep) = {} THEN s
    ELSE DropFirst(s, Max(Occurrences(s, sep)) + Len(sep))

\* C3: each of the four callers returns the trimmed text that follows the
\* last occurrence of its marker (key + ":") in the generated text, the
\* whole generated text trimmed when the marker is absent, and never raises.
C3_ExtractAfterLastMarker ==
    pc = "returned" =>
        /\ result = Trimmed(AfterLast(generated, ResponseKey[fn] \o <<":">>))
        /\ error = "none"

C3_Witness ==
    /\ pc = "returned"
    /\ fn = "ai_verdict"
    /\ Cardinality(Occurrences(generated, KeyVerdict \o <<":">>)) = 2
    /\ result = <<"4", "2">>
    /\ Len(generated) > Max(Occurrences(generated, KeyVerdict \o <<":">>))
                           + Len(KeyVerdict) + 3

----------------------------------------------------------------------------
(* generate_questions_and_answers (ai.py 165-208).                         *)

MarkerQA ==
    <<"#", "#", "#", "q", "a", "_", "p", "a", "i", "r", "s", ":">>

QuestionSep ==
    <<"Q", "u", "e", "s", "t", "i", "o", "n", ":">>

AnswerSep ==
    <<"A", "n", "s", "w", "e", "r", ":">>

QuestionX ==
    <<"\n", "Q", "u", "e", "s", "t", "i", "o", "n", ":", " ", "W", "h",
      "a", "t", " ", "i", "s", " ", "X", "?">>

AnswerXY ==
    <<"\n", "A", "n", "s", "w", "e", "r", ":", " ", "X", " ", "i", "s",
      " ", "Y", ".">>

QuestionZ ==
    <<"\n", "Q", "u", "e", "s", "t", "i", "o", "n", ":", " ", "W", "h",
      "a", "t", " ", "i", "s", " ", "Z", "?">>

AnswerZW ==
    <<"\n", "A", "n", "s", "w", "e", "r", ":", " ", "Z", " ", "i", "s",
      " ", "W", ".">>

\* mutation: a fragment is cut at its last "Answer:" instead of its first
ParseFragment_LastAnswer(qa) ==
    IF Contains(qa, AnswerSep)
    THEN LET parts == RSplit1(qa, AnswerSep) IN
         <<(<<Strip(parts[1]), Strip(parts[2])>>)>>
    ELSE <<>>

\* lines 201-203 for one fragment: the (question, answer) assignment made
\* to qa_pairs, none when the fragment has no "Answer:"
ParseFragment(qa) ==
    IF Contains(qa, AnswerSep)
    THEN LET parts == Split1(qa, AnswerSep) IN
         <<(<<Strip(parts[1]), Strip(parts[2])>>)>>
    ELSE <<>>

\* the loop of line 200
RECURSIVE ParseFragments(_)
ParseFragments(qa_list) ==
    IF qa_list = <<>> THEN <<>>
    ELSE ParseFragment(Head(qa_list)) \o ParseFragments(Tail(qa_list))

\* lines 199-203 for one response: the assignments made to qa_pairs, in order
ParseResponse(response) ==
    ParseFragments(
        Split(Strip(Last(RSplit1(response, MarkerQA))), QuestionSep))

\* mutation: an existing key keeps its first answer
StoreEntry_KeepFirst(map, question, answer) ==
    [q \in DOMAIN map \cup {question} |->
        IF q \in DOMAIN map THEN map[q] ELSE answer]

\* line 203: qa_pairs[question] = answer
StoreEntry(map, question, answer) ==
    [q \in DOMAIN map \cup {question} |->
        IF q = question THEN answer ELSE map[q]]

RECURSIVE StoreEntries(_, _)
StoreEntries(map, entries) ==
    IF entries = <<>> THEN map
    ELSE StoreEntries(StoreEntry(map, Head(entries)[1], Head(entries)[2]),
                      Tail(entries))

\* lines 198-203: every response of the batch, in order
RECURSIVE ParseBatch(_, _)
ParseBatch(map, responses) ==
    IF responses = <<>> THEN map
    ELSE ParseBatch(StoreEntries(map, ParseResponse(Head(responses))),
                    Tail(responses))

\* building blocks of the raw outputs the parsing is explored on
RawPieces == {MarkerQA, QuestionX, AnswerXY, QuestionZ, AnswerZW}

RawOutputs == {Concat(ps) : ps \in SeqsBetween(RawPieces, 0, MaxRawPieces)}

InitParse ==
    /\ pc = "qa_parse"
    /\ error = "none"
    /\ sentences = <<>> /\ chunk_size = 1 /\ idx = 0
    /\ current_chunk = <<>> /\ chunks = <<>>
    /\ fn = "none" /\ generated = <<>> /\ result = <<>>
    /\ batch_size = 1 /\ qa_i = 0
    /\ batch_responses \in {<<r>> : r \in RawOutputs}
    /\ qa_pairs = EmptyMap /\ genLog = <<>> /\ releases = 0
    /\ model = <<>> /\ model0 = <<>> /\ amount = [num |-> 1, den |-> 5]
    /\ parameters_to_prune = <<>> /\ prune_i = 0

\* lines 198-203 on a batch holding one response
ParseOne ==
    /\ pc = "qa_parse"
    /\ qa_pairs' = ParseBatch(qa_pairs, batch_responses)
    /\ pc' = "qa_parsed"
    /\ UNCHANGED <<error, chunkVars, respVars, batch_size, qa_i,
                   batch_responses, genLog, releases, pruneVars>>

NextParse == ParseOne

SpecParse == InitParse /\ [][NextParse]_vars

\* outputs ai_generate returns in the runs of the whole function: no
\* pair, one pair, two questions, one question answered twice
QAOutputs ==
    {MarkerQA,
     MarkerQA \o QuestionX \o AnswerXY,
     MarkerQA \o QuestionX \o AnswerZW,
     MarkerQA \o QuestionZ \o AnswerZW \o QuestionX \o AnswerXY,
     MarkerQA \o QuestionX \o AnswerXY \o QuestionX \o AnswerZW}

\* chunks[i:i + batch_size], line 170
batch_chunks ==
    SubSeq(chunks, qa_i + 1,
           IF qa_i + batch_size < Len(chunks) THEN qa_i + batch_size ELSE Len(chunks))

InitQA ==
    /\ pc = "qa_start"
    /\ error = "none"
    /\ sentences \in SeqsBetween({<<"a">>}, 0, MaxDocSentences)
    /\ chunk_size \in {1, 3}
    /\ idx = 0 /\ current_chunk = <<>> /\ chunks = <<>>
    /\ fn = "none" /\ generated = <<>> /\ result = <<>>
    /\ batch_size \in 1..MaxBatchSize
    /\ qa_i = 0 /\ batch_responses = <<>>
    /\ qa_pairs = EmptyMap /\ genLog = <<>> /\ releases = 0
    /\ model = <<>> /\ model0 = <<>> /\ amount = [num |-> 1, den |-> 5]
    /\ parameters_to_prune = <<>> /\ prune_i = 0

\* lines 166-167
QAStart ==
    /\ pc = "qa_start"
    /\ chunks' = split_into_chunks(sentences, chunk_size)
    /\ qa_pairs' = EmptyMap
    /\ qa_i' = 0
    /\ pc' = "qa_batch"
    /\ UNCHANGED <<error, sentences, chunk_size, idx, current_chunk, respVars,
                   batch_size, batch_responses, genLog, releases, pruneVars>>

\* lines 169-173: the next batch starts
QABatchBegin ==
    /\ pc = "qa_batch"
    /\ qa_i < Len(chunks)
    /\ batch_responses' = <<>>
    /\ pc' = "qa_generate"
    /\ UNCHANGED <<error, chunkVars, respVars, batch_size, qa_i, qa_pairs,
                   genLog, releases, pruneVars>>

\* lines 174-196: one chunk of the batch goes through ai_generate
QAGenerate ==
    /\ pc = "qa_generate"
    /\ Len(batch_responses) < Len(batch_chunks)
    /\ \E response \in QAOutputs :
          /\ batch_responses' = Append(batch_responses, response)
          /\ genLog' = Append(genLog,
                  [chunk |-> qa_i + Len(batch_responses) + 1,
                   response |-> response])
    /\ UNCHANGED <<pc, error, chunkVars, respVars, batch_size, qa_i, qa_pairs,
                   releases, pruneVars>>

\* mutation: the memory release of line 205 is skipped
QAParseBatch_NoRelease ==
    /\ pc = "qa_generate"
    /\ Len(batch_responses) = Len(batch_chunks)
    /\ qa_pairs' = ParseBatch(qa_pairs, batch_responses)
    /\ qa_i' = qa_i + batch_size
    /\ pc' = "qa_batch"
    /\ UNCHANGED <<error, chunkVars, respVars, batch_size, batch_responses,
                   genLog, releases, pruneVars>>

\* lines 198-205: the batch is parsed, accelerator memory released
QAParseBatch ==
    /\ pc = "qa_generate"
    /\ Len(batch_responses) = Len(batch_chunks)
    /\ qa_pairs' = ParseBatch(qa_pairs, batch_responses)
    /\ releases' = releases + 1
    /\ qa_i' = qa_i + batch_size
    /\ pc' = "qa_batch"
    /\ UNCHANGED <<error, chunkVars, respVars, batch_size, batch_responses,
                   genLog, pruneVars>>

\* lines 207-208
QAReturn ==
    /\ pc = "qa_batch"
    /\ qa_i >= Len(chunks)
    /\ pc' = "qa_done"
    /\ UNCHANGED <<error, chunkVars, respVars, qaVars, pruneVars>>

NextQA == QAStart \/ QABatchBegin \/ QAGenerate \/ QAParseBatch \/ QAReturn

SpecQA == InitQA /\ [][NextQA]_vars

(* Properties of generate_questions_and_answers.                           *)

WhatIsX ==
    <<"W", "h", "a", "t", " ", "i", "s", " ", "X", "?">>

XisY ==
    <<"X", " ", "i", "s", " ", "Y", ".">>

WhatIsZ ==
    <<"W", "h", "a", "t", " ", "i", "s", " ", "Z", "?">>

ZisW ==
    <<"Z", " ", "i", "s", " ", "W", ".">>

\* the raw text of the parsing example
ExampleRaw == MarkerQA \o QuestionX \o AnswerXY \o QuestionZ \o AnswerZW

\* the pieces of s between the occurrences of sep, in order
FragmentsOf(s, sep) ==
    LET occ == Occurrences(s, sep)
        n == Cardinality(occ)
        Kth(k) == CHOOSE p \in occ : Cardinality({q \in occ : q < p}) = k - 1
    IN  [k \in 1..(n + 1) |->
            SubSeq(s,
                   IF k = 1 THEN 1 ELSE Kth(k - 1) + Len(sep) + 1,
                   IF k = n + 1 THEN Len(s) ELSE Kth(k))]

\* (trimmed text before the first "Answer:", trimmed text after it)
EntryOf(fragment) ==
    LET p == Min(Occurrences(fragment, AnswerSep)) IN
    <<Trimmed(TakeFirst(fragment, p)),
      Trimmed(DropFirst(fragment, p + Len(AnswerSep)))>>

\* the entries one raw output stands for
ExpectedEntries(raw) ==
    LET frags == FragmentsOf(Trimmed(AfterLast(raw, MarkerQA)), QuestionSep)
        kept == SelectSeq(frags, LAMBDA f : Occurrences(f, AnswerSep) # {})
    IN  [k \in 1..Len(kept) |-> EntryOf(kept[k])]

\* the mapping a sequence of entries leaves: one key per distinct
\* question, holding the answer of its last entry
LastWins(entries) ==
    [q \in {entries[k][1] : k \in 1..Len(entries)} |->
        entries[Max({k \in 1..Len(entries) : entries[k][1] = q})][2]]

\* C4: parsing one raw output stores exactly the entries of its fragments:
\* text after the last ###qa_pairs: marker, trimmed, cut at "Question:";
\* a fragment with "Answer:" gives (trimmed text before the first
\* "Answer:", trimmed text after it), a fragment without it gives nothing
\* and raises nothing; the two-pair example gives exactly its two entries.
C4_ParsedEntries ==
    pc = "qa_parsed" =>
        /\ qa_pairs = LastWins(ExpectedEntries(batch_responses[1]))
        /\ error = "none"
        /\ batch_responses[1] = ExampleRaw =>
              qa_pairs = (WhatIsX :> XisY) @@ (WhatIsZ :> ZisW)

C4_Witness ==
    /\ pc = "qa_parsed"
    /\ batch_responses[1] = ExampleRaw
    /\ DOMAIN qa_pairs = {WhatIsX, WhatIsZ}

\* the assignments each explored output leads to
ParsedOutput == [r \in QAOutputs |-> ParseResponse(r)]

\* entries of the outputs of chunks c..Len(chunks), in document order
RECURSIVE EntriesFromChunk(_)
EntriesFromChunk(c) ==
    IF c > Len(chunks) THEN <<>>
    ELSE LET call == CHOOSE k \in DOMAIN genLog : genLog[k].chunk = c IN
         ParsedOutput[genLog[call].response] \o EntriesFromChunk(c + 1)

\* C5: in the mapping returned every distinct question text is a key once
\* and holds the answer of its occurrence latest in document order (chunk
\* number, then position in the chunk's output).
C5_LatestAnswerWins ==
    pc = "qa_done" => qa_pairs = LastWins(EntriesFromChunk(1))

C5_Witness ==
    /\ pc = "qa_done"
    /\ batch_size = 2
    /\ Len(genLog) = 3
    /\ genLog[1].response = MarkerQA \o QuestionX \o AnswerZW
    /\ genLog[2].response = MarkerQA \o QuestionX \o AnswerXY
    /\ genLog[3].response =
           MarkerQA \o QuestionX \o AnswerXY \o QuestionX \o AnswerZW
    /\ qa_pairs = (WhatIsX :> ZisW)

\* the mapping after the outputs of the first n generation calls are parsed
RECURSIVE ParsedCalls(_)
ParsedCalls(n) ==
    IF n = 0 THEN EmptyMap
    ELSE StoreEntries(ParsedCalls(n - 1), ParsedOutput[genLog[n].response])

\* C9: the generator is called once per chunk, in chunk order; no output of
\* a batch is parsed before the batch's last generation call has returned;
\* memory is released once per parsed batch, ceil(n/b) times in all; the
\* mapping is returned after the last batch is parsed; a document without
\* chunks causes no generation and no release and returns the empty mapping.
C9_BatchedGeneration ==
    LET n == Len(chunks) IN
    /\ \A k \in DOMAIN genLog : genLog[k].chunk = k
    /\ Len(genLog) <= n
    /\ pc = "qa_generate" =>
          /\ Len(genLog) = qa_i + Len(batch_responses)
          /\ releases * batch_size = qa_i
          /\ qa_pairs = ParsedCalls(qa_i)
    /\ pc = "qa_batch" =>
          /\ Len(genLog) = (IF qa_i < n THEN qa_i ELSE n)
          /\ releases * batch_size = qa_i
          /\ qa_pairs = ParsedCalls(Len(genLog))
    /\ pc = "qa_done" =>
          /\ Len(genLog) = n
          /\ releases = (n + batch_size - 1) \div batch_size
          /\ qa_pairs = ParsedCalls(n)
          /\ n = 0 => qa_pairs = EmptyMap /\ releases = 0

C9_Witness ==
    /\ pc = "qa_done"
    /\ Len(chunks) = 3
    /\ batch_size = 2
    /\ Len(genLog) = 3
    /\ releases = 2

----------------------------------------------------------------------------
(* apply_pruning_efficiently (ai.py 20-49), apply_low_rank_factorization   *)
(* (51-66) and the module's start-up statements (210-212).                 *)
(*                                                                         *)
(* A module of the model is a record: linear tells torch.nn.Linear from    *)
(* every other module, weight is the weight matrix of a Linear(n, 1)       *)
(* layer (one row of n entries), masked tells whether the pruning          *)
(* reparametrization (weight_orig, weight_mask) is attached, lowrank       *)
(* whether the weight was replaced by its rank-10 reconstruction.          *)

\* names bound in the module's globals once its statements up to line 209
\* have run: the imports of lines 1-9, line 16 and the functions defined
GlobalNames ==
    {"load_dotenv", "login", "AutoTokenizer", "AutoModelForCausalLM",
     "torch", "prune", "autocast", "sent_tokenize", "os",
     "HUGGINGFACEHUB_API_TOKEN",
     "apply_pruning_efficiently", "apply_low_rank_factorization",
     "initialize_model", "ai_generate", "ai_response", "ai_answer",
     "ai_hint", "ai_feedback", "ai_verdict", "split_into_chunks",
     "generate_questions_and_answers"}

WeightVals == {-2, 1}

OtherModule ==
    [linear |-> FALSE, weight |-> <<>>, masked |-> FALSE, lowrank |-> FALSE]

LinearModule(w) ==
    [linear |-> TRUE, weight |-> w, masked |-> FALSE, lowrank |-> FALSE]

ModuleSet ==
    {OtherModule} \cup
        {LinearModule(w) : w \in SeqsBetween(WeightVals, 1, MaxLayerLen)}

Models == SeqsBetween(ModuleSet, 0, MaxModules)

\* the pruning fractions explored, as exact fractions
Amounts == {[num |-> 1, den |-> 5], [num |-> 1, den |-> 2]}

Abs(x) == IF x < 0 THEN -x ELSE x

\* Python round(num / den * n): to nearest, a tie to the even neighbour
PyRound(num, den, n) ==
    LET q == (num * n) \div den
        r == (num * n) % den
    IN  IF 2 * r < den THEN q
        ELSE IF 2 * r > den THEN q + 1
        ELSE IF q % 2 = 0 THEN q ELSE q + 1

\* lines 22-26: the modules that are Linear, in named_modules order
RECURSIVE LinearIndices(_, _)
LinearIndices(m, from) ==
    IF from > Len(m) THEN <<>>
    ELSE (IF m[from].linear THEN <<from>> ELSE <<>>)
             \o LinearIndices(m, from + 1)

\* parameters_to_prune[i:i + batch_size], line 29
prune_batch ==
    SubSeq(parameters_to_prune, prune_i + 1,
           IF prune_i + batch_size < Len(parameters_to_prune)
           THEN prune_i + batch_size ELSE Len(parameters_to_prune))

\* the weight entries of the modules listed in batch: <<module, column>>
BatchEntries(m, batch) ==
    UNION {{<<batch[b], j>> : j \in 1..Len(m[batch[b]].weight)} :
              b \in 1..Len(batch)}

\* torch.nn.utils.prune.global_unstructured with L1Unstructured: the sets
\* of entries torch.topk(abs, k, largest=False) may select over the
\* concatenated weights of the batch, k = round(amount * number of
\* entries); which of several equal magnitudes it takes is unspecified
PrunableSets(m, batch, amt) ==
    LET entries == BatchEntries(m, batch)
        Mag(e) == Abs(m[e[1]].weight[e[2]])
        k == PyRound(amt.num, amt.den, Cardinality(entries))
        below(t) == {e \in entries : Mag(e) < t}
        upto(t) == {e \in entries : Mag(e) <= t}
    IN  IF k = 0 THEN {{}}
        ELSE LET t == CHOOSE x \in {Mag(e) : e \in entries} :
                          /\ Cardinality(below(x)) < k
                          /\ k <= Cardinality(upto(x))
             IN  {below(t) \cup ties :
                     ties \in {T \in SUBSET (upto(t) \ below(t)) :
                                  Cardinality(T) = k - Cardinality(below(t))}}

\* the model with the entries of zeroed masked out in the modules of batch
ApplyMasks(m, batch, zeroed) ==
    [x \in 1..Len(m) |->
        IF \E b \in 1..Len(batch) : batch[b] = x
        THEN [m[x] EXCEPT
                 !.masked = TRUE,
                 !.weight = [j \in 1..Len(m[x].weight) |->
                                IF <<x, j>> \in zeroed THEN 0
                                ELSE m[x].weight[j]]]
        ELSE m[x]]

\* prune.remove on every module of batch, lines 37-38
RemoveMasks(m, batch) ==
    [x \in 1..Len(m) |->
        IF \E b \in 1..Len(batch) : batch[b] = x
        THEN [m[x] EXCEPT !.masked = FALSE]
        ELSE m[x]]

\* lines 53-61 with rank = 10: a one-row weight has rank at most 1, so
\* U[:, :10] S[:10] V[:, :10]^T rebuilds it; the parameter is replaced
apply_low_rank_factorization(m) ==
    [x \in 1..Len(m) |->
        IF m[x].linear THEN [m[x] EXCEPT !.lowrank = TRUE] ELSE m[x]]

InitPrune ==
    /\ pc = "prune_collect"
    /\ error = "none"
    /\ sentences = <<>> /\ chunk_size = 1 /\ idx = 0
    /\ current_chunk = <<>> /\ chunks = <<>>
    /\ fn = "none" /\ generated = <<>> /\ result = <<>>
    /\ batch_size \in 1..MaxBatchSize
    /\ qa_i = 0 /\ batch_responses = <<>>
    /\ qa_pairs = EmptyMap /\ genLog = <<>> /\ releases = 0
    /\ model \in Models
    /\ model0 = model
    /\ amount \in Amounts
    /\ parameters_to_prune = <<>>
    /\ prune_i = 0

\* lines 21-26
PruneCollect ==
    /\ pc = "prune_collect"
    /\ parameters_to_prune' = LinearIndices(model, 1)
    /\ prune_i' = 0
    /\ pc' = "prune_loop"
    /\ UNCHANGED <<error, chunkVars, respVars, qaVars, model, model0, amount>>

\* lines 28-35: the next batch is pruned globally
PruneGlobal ==
    /\ pc = "prune_loop"
    /\ prune_i < Len(parameters_to_prune)
    /\ \E zeroed \in PrunableSets(model, prune_batch, amount) :
          model' = ApplyMasks(model, prune_batch, zeroed)
    /\ pc' = "prune_masked"
    /\ UNCHANGED <<error, chunkVars, respVars, qaVars, model0, amount,
                   parameters_to_prune, prune_i>>

\* lines 37-38: the masks of the batch are made permanent
PruneRemove ==
    /\ pc = "prune_masked"
    /\ model' = RemoveMasks(model, prune_batch)
    /\ pc' = "prune_reclaim"
    /\ UNCHANGED <<error, chunkVars, respVars, qaVars, model0, amount,
                   parameters_to_prune, prune_i>>

\* mutation: gc and time are imported, the loop goes on
PruneReclaim_Imported ==
    /\ pc = "prune_reclaim"
    /\ prune_i' = prune_i + batch_size
    /\ pc' = "prune_loop"
    /\ UNCHANGED <<error, chunkVars, respVars, qaVars, model, model0, amount,
                   parameters_to_prune>>

\* lines 40-47: del batch, empty_cache, gc.collect(), time.sleep(delay),
\* print; a name that is not bound raises NameError where it is evaluated
PruneReclaim ==
    /\ pc = "prune_reclaim"
    /\ IF "gc" \notin GlobalNames
       THEN /\ error' = "NameError: gc"
            /\ pc' = "prune_raised"
            /\ UNCHANGED prune_i
       ELSE IF "time" \notin GlobalNames
       THEN /\ error' = "NameError: time"
            /\ pc' = "prune_raised"
            /\ UNCHANGED prune_i
       ELSE /\ prune_i' = prune_i + batch_size
            /\ pc' = "prune_loop"
            /\ UNCHANGED error
    /\ UNCHANGED <<chunkVars, respVars, qaVars, model, model0, amount,
                   parameters_to_prune>>

\* line 49
PruneReturn ==
    /\ pc = "prune_loop"
    /\ prune_i >= Len(parameters_to_prune)
    /\ pc' = "prune_returned"
    /\ UNCHANGED <<error, chunkVars, respVars, qaVars, pruneVars>>

NextPrune ==
    PruneCollect \/ PruneGlobal \/ PruneRemove \/ PruneReclaim \/ PruneReturn

SpecPrune == InitPrune /\ [][NextPrune]_vars

(* Module start-up, lines 210-212.                                         *)

InitStartup ==
    /\ pc = "load_210"
    /\ error = "none"
    /\ sentences = <<>> /\ chunk_size = 1 /\ idx = 0
    /\ current_chunk = <<>> /\ chunks = <<>>
    /\ fn = "none" /\ generated = <<>> /\ result = <<>>
    /\ batch_size = 1 /\ qa_i = 0 /\ batch_responses = <<>>
    /\ qa_pairs = EmptyMap /\ genLog = <<>> /\ releases = 0
    /\ model = <<>> /\ model0 = <<>> /\ amount = [num |-> 1, den |-> 5]
    /\ parameters_to_prune = <<>> /\ prune_i = 0

\* line 210: initialize_model() loads the pretrained model
StartInitialize ==
    /\ pc = "load_210"
    /\ \E m \in Models : model' = m /\ model0' = m
    /\ pc' = "load_211"
    /\ UNCHANGED <<error, chunkVars, respVars, qaVars, amount,
                   parameters_to_prune, prune_i>>

\* line 211: model = apply_low_rank_factorization(model, rank=10)
StartLowRank ==
    /\ pc = "load_211"
    /\ model' = apply_low_rank_factorization(model)
    /\ pc' = "load_212"
    /\ UNCHANGED <<error, chunkVars, respVars, qaVars, model0, amount,
                   parameters_to_prune, prune_i>>

\* line 212: model = apply_pruning(model, amount=0.2); the name is looked
\* up in the module's globals before anything is called
StartPrune ==
    /\ pc = "load_212"
    /\ IF "apply_pruning" \in GlobalNames
       THEN pc' = "load_212_call" /\ UNCHANGED error
       ELSE pc' = "load_failed" /\ error' = "NameError: apply_pruning"
    /\ UNCHANGED <<chunkVars, respVars, qaVars, pruneVars>>

NextStartup == StartInitialize \/ StartLowRank \/ StartPrune

SpecStartup == InitStartup /\ [][NextStartup]_vars

(* Properties of the pruning and of the start-up.                          *)

\* the layers of the batches pruned so far
ProcessedLayers ==
    IF pc \in {"prune_masked", "prune_reclaim", "prune_raised"}
    THEN {parameters_to_prune[b] :
             b \in 1..(IF prune_i + batch_size < Len(parameters_to_prune)
                       THEN prune_i + batch_size
                       ELSE Len(parameters_to_prune))}
    ELSE {parameters_to_prune[b] : b \in 1..prune_i}
             \cap {parameters_to_prune[b] : b \in DOMAIN parameters_to_prune}

\* columns of layer x that hold zero
ZeroColumns(x) == {j \in 1..Len(model[x].weight) : model[x].weight[j] = 0}

\* C6 as stated: in each layer a pruning batch has processed, the fraction
\* of zero weights is at least the pruning fraction and the zeroed entries
\* are the smallest-magnitude weights of that layer.
C6_PerLayerFraction ==
    \A x \in ProcessedLayers :
        /\ Cardinality(ZeroColumns(x)) * amount.den
              >= amount.num * Len(model[x].weight)
        /\ \A z \in ZeroColumns(x) :
              \A y \in (1..Len(model[x].weight)) \ ZeroColumns(x) :
                  Abs(model0[x].weight[z]) <= Abs(model0[x].weight[y])

\* C7 as stated: the start-up statements run to completion in order, and
\* the module finishes loading with a model on which low-rank
\* factorization and then pruning have completed.
C7_StartupCompletes ==
    /\ error = "none"
    /\ pc \notin {"load_210", "load_211", "load_212"} => pc = "loaded"

\* the linear modules of the model passed in, in order
LinearLayers0 == LinearIndices(model0, 1)

\* the first batch_size linear modules
FirstBatch ==
    SubSeq(LinearLayers0, 1,
           IF batch_size < Len(LinearLayers0)
           THEN batch_size ELSE Len(LinearLayers0))

\* entries of the first batch whose weight differs from the one passed in
ChangedEntries ==
    {e \in BatchEntries(model0, FirstBatch) :
        model[e[1]].weight[e[2]] # model0[e[1]].weight[e[2]]}

\* C8: on a model with a linear layer the call raises at the undefined
\* garbage-collection name after the first batch was pruned and its masks
\* removed: no later batch is processed, every module outside the first
\* batch is as passed in, nothing is returned; on a model without linear
\* layers the call returns the model unchanged.
C8_FailsAfterFirstBatch ==
    /\ pc = "prune_raised" =>
          /\ error = "NameError: gc"
          /\ LinearLayers0 # <<>>
          /\ prune_i = 0
          /\ \A x \in 1..Len(model) :
                (\A b \in 1..Len(FirstBatch) : FirstBatch[b] # x)
                    => model[x] = model0[x]
          /\ \A b \in 1..Len(FirstBatch) : ~model[FirstBatch[b]].masked
          /\ Cardinality(ChangedEntries) =
                PyRound(amount.num, amount.den,
                        Cardinality(BatchEntries(model0, FirstBatch)))
          /\ \A z \in ChangedEntries :
                /\ model[z[1]].weight[z[2]] = 0
                /\ \A y \in BatchEntries(model0, FirstBatch) \ ChangedEntries :
                      Abs(model0[z[1]].weight[z[2]])
                          <= Abs(model0[y[1]].weight[y[2]])
    /\ pc = "prune_returned" =>
          /\ LinearLayers0 = <<>>
          /\ model = model0
          /\ error = "none"
    /\ pc \in {"prune_masked", "prune_reclaim"} => prune_i = 0

C8_Witness ==
    /\ pc = "prune_raised"
    /\ Len(LinearLayers0) = 2
    /\ batch_size = 1
    /\ Cardinality(ChangedEntries) = 1
    /\ model[LinearLayers0[2]] = model0[LinearLayers0[2]]

====
